---- MODULE Spec2Model ----
(***************************************************************************)
(* Verification model of bevy_mod_wanderlust:                              *)
(*   - the per-frame system pipeline registered by WanderlustPlugin::build *)
(*     (src/plugins.rs),                                                   *)
(*   - the soft-constraint spring (src/spring.rs) and its test harness,    *)
(*   - the gravity model (src/controller/gravity.rs).                      *)
(*                                                                         *)
(* f32 values are modelled as exact rationals <<n, d>> in lowest terms     *)
(* (d > 0), extended with the IEEE-754 specials the code can produce:      *)
(*   <<1, 0>> = +inf, <<-1, 0>> = -inf, <<0, 0>> = NaN.                     *)
(* Rounding and signed zeros are not modelled.                             *)
(***************************************************************************)
EXTENDS Integers, Sequences, FiniteSets, TLC

VARIABLES
    \* ---- pipeline (src/plugins.rs) ----
    plugin,         \* the WanderlustPlugin value handed to App::add_plugins
    status,         \* per system of the frame: "idle" | "running" | "done"
    tick,           \* number of the frame being executed (1-based)
    ground,         \* tick stamps of the GroundCast / Groundedness snapshot
    seen,           \* per contributor: the ground snapshot it read on start
    accumulated,    \* contributors finished when accumulate_forces started
    applied,        \* apply_forces executions since the last backend sync
    appliedAtSync,  \* value of applied when the last backend sync started
    syncs,          \* number of backend syncs started so far
    started,        \* the Startup schedule has run
    ctx,            \* RapierContext::integration_parameters
    setups,         \* executions of setup_physics_context so far
    body,           \* tick stamps of ControllerMass / ControllerVelocity
    seenBody,       \* per reader: the mass / velocity stamps it read on start
    \* ---- spring harness (src/spring.rs) ----
    spring,         \* Spring { frequency, damp_ratio }
    mass,
    timestep,
    initial,        \* [position, velocity] the run started from
    position,
    velocity,
    last,           \* arguments, locals and result of the last soft_constraint
    history,        \* positions plotted so far (plot_y)
    \* ---- gravity (src/controller/gravity.rs) ----
    gravity,        \* Gravity { acceleration, up_vector }
    vec,            \* the vector being projected
    original,       \* the vector before the first projection
    projections,    \* number of times project has been applied to vec
    \* ---- gravity_force (src/controller/gravity.rs) ----
    components,     \* per controller: Gravity, ControllerMass, translation,
                    \* GravityForce.linear
    before,         \* components as they were when gravity_force last started
    fphase,         \* "game": before gravity_force, "forced": after it
    ftick,          \* frame of the gravity_force model
    \* ---- ground probe and float force (spec 4.3, 4.4) ----
    cast,           \* GroundCast of the frame: [hit, toi]
    groundedness,   \* "Grounded" | "Airborne"
    float_linear,   \* float force along up_vector computed this frame
    rel_velocity,   \* body velocity relative to the ground, along up_vector
    dists,          \* the casts of all frames so far
    toggles,        \* number of Groundedness changes so far
    gpc,            \* next step of the frame
    gtick,          \* frame of the ground model
    \* ---- Parts (src/controller/parts.rs) ----
    parts,          \* Parts::parts, the Vec<Entity>
    controller,     \* the entity handed to Parts::parts(controller)
    iter,           \* the iterator returned by Parts::parts: [a, b]
    items,          \* the entities the iterator has yielded so far
    ppc             \* "idle" | "iterating" | "done"

pipeVars   == <<plugin, status, tick, ground, seen, accumulated, applied,
                appliedAtSync, syncs, started, ctx, setups, body, seenBody>>
springVars == <<spring, mass, timestep, initial, position, velocity, last,
                history>>
gravVars   == <<gravity, vec, original, projections>>
forceVars  == <<components, before, fphase, ftick>>
groundVars == <<cast, groundedness, float_linear, rel_velocity, dists, toggles,
                gpc, gtick>>
partsVars  == <<parts, controller, iter, items, ppc>>
vars       == <<pipeVars, springVars, gravVars, forceVars, groundVars,
                partsVars>>

(***************************************************************************)
(* Bounds                                                                  *)
(***************************************************************************)
MaxTick  == 3      \* frames executed by the pipeline model
MaxSteps == 3      \* harness integration steps per run
MaxCoord == 1      \* |component| of the vectors handed to Gravity::project
MaxForceTick == 2  \* frames executed by the gravity_force model
MaxGroundTick == 3 \* frames executed by the ground model
MaxParts == 3      \* longest parts list

(***************************************************************************)
(* Extended rational arithmetic (f32 operators)                            *)
(***************************************************************************)
Abs(n) == IF n < 0 THEN -n ELSE n

Sgn(n) == IF n > 0 THEN 1 ELSE IF n < 0 THEN -1 ELSE 0

RECURSIVE Gcd(_, _)
Gcd(a, b) == IF b = 0 THEN a ELSE Gcd(b, a % b)

\* lowest terms, positive denominator; d = 0 yields +-inf or NaN
Norm(n, d) ==
    IF d = 0 THEN <<Sgn(n), 0>>
    ELSE IF n = 0 THEN <<0, 1>>
    ELSE LET g == Gcd(Abs(n), Abs(d))
             s == IF d < 0 THEN -1 ELSE 1
         IN  <<(s * n) \div g, (s * d) \div g>>

Q(n, d) == Norm(n, d)
Int2Q(n) == <<n, 1>>
Zero == <<0, 1>>
One  == <<1, 1>>
Two  == <<2, 1>>
NaN  == <<0, 0>>
PInf == <<1, 0>>
NInf == <<-1, 0>>

IsNaN(a)    == a = NaN
IsInf(a)    == a[2] = 0 /\ a[1] # 0
IsFinite(a) == a[2] > 0
IsZero(a)   == a[2] > 0 /\ a[1] = 0

Neg(a) == <<-a[1], a[2]>>

\* IEEE addition: NaN propagates, inf + -inf = NaN, inf absorbs finite values
\* (finite operands are brought to the least common denominator)
Add(a, b) ==
    IF IsNaN(a) \/ IsNaN(b) THEN NaN
    ELSE IF IsInf(a) /\ IsInf(b) THEN (IF a = b THEN a ELSE NaN)
    ELSE IF IsInf(a) THEN a
    ELSE IF IsInf(b) THEN b
    ELSE LET g == Gcd(a[2], b[2])
         IN  Norm(a[1] * (b[2] \div g) + b[1] * (a[2] \div g),
                  (a[2] \div g) * b[2])

Sub(a, b) == Add(a, Neg(b))

\* IEEE multiplication: 0 * inf = NaN falls out of Norm(0, 0)
\* (finite operands are cross-reduced before multiplying)
Mul(a, b) ==
    IF IsNaN(a) \/ IsNaN(b) THEN NaN
    ELSE IF ~IsFinite(a) \/ ~IsFinite(b) THEN Norm(a[1] * b[1], a[2] * b[2])
    ELSE LET g1 == Gcd(Abs(a[1]), b[2])
             g2 == Gcd(Abs(b[1]), a[2])
         IN  Norm((a[1] \div g1) * (b[1] \div g2),
                  (a[2] \div g2) * (b[2] \div g1))

\* 1/0 = +inf, 1/inf = 0
Recip(b) ==
    IF IsNaN(b) THEN NaN
    ELSE IF IsZero(b) THEN PInf
    ELSE <<Sgn(b[1]) * b[2], Abs(b[1])>>

\* IEEE division: x/0 = +-inf, 0/0 = NaN, inf/inf = NaN, x/inf = 0
Div(a, b) == Mul(a, Recip(b))

\* IEEE comparisons: every comparison with NaN is false
Lt(a, b) ==
    /\ ~IsNaN(a) /\ ~IsNaN(b)
    /\ a # b
    /\ IF IsInf(a) THEN a = NInf
       ELSE IF IsInf(b) THEN b = PInf
       ELSE a[1] * b[2] < b[1] * a[2]

Le(a, b) == ~IsNaN(a) /\ ~IsNaN(b) /\ (a = b \/ Lt(a, b))

AbsQ(a) == <<Abs(a[1]), a[2]>>

\* integer square root (floor)
ISqrt(n) == CHOOSE k \in 0..n : k * k <= n /\ (k + 1) * (k + 1) > n

\* f32::sqrt: NaN for negative arguments; exact on squares of rationals, which
\* is every argument the modelled inputs produce
Sqrt(a) ==
    IF IsNaN(a) THEN NaN
    ELSE IF a = PInf THEN PInf
    ELSE IF a[1] < 0 THEN NaN
    ELSE Norm(ISqrt(a[1]), ISqrt(a[2]))

(***************************************************************************)
(* Pipeline: WanderlustPlugin::build                                       *)
(***************************************************************************)
\* mutant: get_velocity_from_rapier listed after the contributors
Chain_VelocityLate ==
         << "get_mass_from_rapier", "find_ground", "determine_groundedness",
            "gravity_force", "movement_force", "float_force", "upright_force",
            "jump_force", "get_velocity_from_rapier", "accumulate_forces",
            "apply_forces", "apply_ground_forces" >>

\* mutant: movement_force listed ahead of the ground probe
Chain_ContributorFirst ==
         << "get_mass_from_rapier", "get_velocity_from_rapier",
            "movement_force", "find_ground", "determine_groundedness",
            "gravity_force", "float_force", "upright_force", "jump_force",
            "accumulate_forces", "apply_forces", "apply_ground_forces" >>

\* the tuple of systems handed to add_systems(Update, (...).chain())
Chain == << "get_mass_from_rapier", "get_velocity_from_rapier", "find_ground",
            "determine_groundedness", "gravity_force", "movement_force",
            "float_force", "upright_force", "jump_force", "accumulate_forces",
            "apply_forces", "apply_ground_forces" >>

Systems == { Chain[i] : i \in 1..Len(Chain) }

Contributors == { "gravity_force", "movement_force", "float_force",
                  "upright_force", "jump_force" }

\* the contributors that read the GroundCast / Groundedness snapshot
GroundReaders == Contributors \ { "gravity_force" }

\* the systems that read ControllerMass / ControllerVelocity
BodyReaders == Contributors \cup { "find_ground" }

SyncBackend == "PhysicsSet::SyncBackend"

Idx(s) == CHOOSE i \in 1..Len(Chain) : Chain[i] = s

\* mutant: the tuple is added without .chain()
Unchained(a, b) == FALSE

\* mutant: the contributors are added as an unchained group inside the chain
ChainedAroundContributors(a, b) ==
    Idx(a) < Idx(b) /\ ~(a \in Contributors /\ b \in Contributors)

\* .chain(): each system of the tuple runs after the one before it; the
\* executor orders by the transitive closure, i.e. by position in the tuple
ChainedBefore(a, b) == Idx(a) < Idx(b)

\* mutant: the tuple is added without .before(PhysicsSet::SyncBackend)
NotBeforeSync(s) == FALSE

\* mutant: .before(...) is attached to the first system only
OnlyFirstBeforeSync(s) == s = Chain[1]

\* .before(PhysicsSet::SyncBackend) is applied to the whole chained tuple
BeforeSync(s) == s \in Systems

\* mutant: the tuple is added whatever default_systems says
RegisteredAlways == Systems

\* if self.default_systems { app.add_systems(Update, ...) }
Registered == IF plugin.default_systems THEN Systems ELSE {}

Nodes == Systems \cup {SyncBackend}

\* everything scheduled in a frame: the registered systems and the backend sync
Scheduled == Registered \cup {SyncBackend}

\* the executor may start a system once everything ordered before it is done
Ready(s) ==
    /\ status[s] = "idle"
    /\ IF s = SyncBackend
       THEN \A r \in Registered : BeforeSync(r) => status[r] = "done"
       ELSE \A r \in Registered : ChainedBefore(r, s) => status[r] = "done"

NoSnapshot == [cast |-> 0, groundedness |-> 0]

NoBody == [mass |-> 0, velocity |-> 0]

\* impl Default for WanderlustPlugin
WanderlustPlugin_default == [tweaks |-> TRUE, default_systems |-> TRUE]

\* integration_parameters of a fresh RapierContext
IntegrationParameters_default == [erp |-> Q(4, 5), max_velocity_iterations |-> 4]

\* params.erp = 0.99; params.max_velocity_iterations = 16;
setup_physics_context(c) ==
    [c EXCEPT !.erp = Q(99, 100), !.max_velocity_iterations = 16]

PipeInit ==
    /\ plugin \in [tweaks : BOOLEAN, default_systems : BOOLEAN]
    /\ started = FALSE
    /\ ctx = IntegrationParameters_default
    /\ setups = 0
    /\ body = NoBody
    /\ seenBody = [c \in BodyReaders |-> NoBody]
    /\ status = [n \in Nodes |-> "idle"]
    /\ tick = 1
    /\ ground = NoSnapshot
    /\ seen = [c \in GroundReaders |-> NoSnapshot]
    /\ accumulated = {}
    /\ applied = 0
    /\ appliedAtSync = 0
    /\ syncs = 0

\* the Startup schedule runs once, before the first Update:
\* if self.tweaks { app.add_systems(Startup, setup_physics_context) }
RunStartup ==
    /\ ~started
    /\ started' = TRUE
    /\ IF plugin.tweaks
       THEN /\ ctx' = setup_physics_context(ctx)
            /\ setups' = setups + 1
       ELSE UNCHANGED <<ctx, setups>>
    /\ UNCHANGED <<plugin, status, tick, ground, seen, accumulated, applied,
                   appliedAtSync, syncs, body, seenBody>>

\* a registered system starts; what it reads is fixed at this point
StartSystem(s) ==
    /\ started
    /\ s \in Registered
    /\ Ready(s)
    /\ seenBody' = IF s \in BodyReaders THEN [seenBody EXCEPT ![s] = body]
                   ELSE seenBody
    /\ status' = [status EXCEPT ![s] = "running"]
    /\ seen' = IF s \in GroundReaders THEN [seen EXCEPT ![s] = ground] ELSE seen
    /\ accumulated' = IF s = "accumulate_forces"
                      THEN { c \in Contributors : status[c] = "done" }
                      ELSE accumulated
    /\ UNCHANGED <<plugin, tick, ground, applied, appliedAtSync, syncs, started,
                   ctx, setups, body>>

\* a running system finishes; what it writes is visible from this point
FinishSystem(s) ==
    /\ s \in Registered
    /\ status[s] = "running"
    /\ status' = [status EXCEPT ![s] = "done"]
    /\ ground' = IF s = "find_ground" THEN [ground EXCEPT !.cast = tick]
                 ELSE IF s = "determine_groundedness"
                      THEN [ground EXCEPT !.groundedness = tick]
                      ELSE ground
    /\ applied' = IF s = "apply_forces" THEN applied + 1 ELSE applied
    /\ body' = IF s = "get_mass_from_rapier" THEN [body EXCEPT !.mass = tick]
               ELSE IF s = "get_velocity_from_rapier"
                    THEN [body EXCEPT !.velocity = tick]
                    ELSE body
    /\ UNCHANGED <<plugin, tick, seen, accumulated, appliedAtSync, syncs,
                   started, ctx, setups, seenBody>>

\* the physics backend starts syncing: it consumes the forces applied so far
StartSync ==
    /\ started
    /\ Ready(SyncBackend)
    /\ status' = [status EXCEPT ![SyncBackend] = "running"]
    /\ appliedAtSync' = applied
    /\ applied' = 0
    /\ syncs' = syncs + 1
    /\ UNCHANGED <<plugin, tick, ground, seen, accumulated, started, ctx, setups,
                   body, seenBody>>

FinishSync ==
    /\ status[SyncBackend] = "running"
    /\ status' = [status EXCEPT ![SyncBackend] = "done"]
    /\ UNCHANGED <<plugin, tick, ground, seen, accumulated, applied,
                   appliedAtSync, syncs, started, ctx, setups, body, seenBody>>

\* every scheduled system has run: the next frame begins
EndFrame ==
    /\ \A n \in Scheduled : status[n] = "done"
    /\ tick < MaxTick
    /\ tick' = tick + 1
    /\ status' = [n \in Nodes |-> "idle"]
    /\ accumulated' = {}
    /\ UNCHANGED <<plugin, ground, seen, applied, appliedAtSync, syncs, started,
                   ctx, setups, body, seenBody>>

PipeNext ==
    \/ RunStartup
    \/ \E s \in Systems : StartSystem(s)
    \/ \E s \in Systems : FinishSystem(s)
    \/ StartSync
    \/ FinishSync
    \/ EndFrame

(***************************************************************************)
(* Spring: src/spring.rs                                                   *)
(***************************************************************************)
\* mutant: the frequency is not squared
stiffness_linear(s, m) == Mul(m, s.frequency)

\* mass * self.frequency * self.frequency
stiffness(s, m) == Mul(Mul(m, s.frequency), s.frequency)

\* 2.0 * (mass * self.stiffness(mass)).sqrt()
critical_damping_point(s, m) == Mul(Two, Sqrt(Mul(m, stiffness(s, m))))

\* self.damp_ratio * self.critical_damping_point(mass)
damp_coefficient(s, m) == Mul(s.damp_ratio, critical_damping_point(s, m))

\* mutant: the explicit spring force of tests::damped_harmonic_oscillator
soft_constraint_explicit(s, m, displacement, relative_velocity, delta_time) ==
    Sub(Mul(Neg(stiffness(s, m)), displacement),
        Mul(damp_coefficient(s, m), relative_velocity))

\* mutant: the negation of the numerator is missing
soft_constraint_unnegated(s, m, displacement, relative_velocity, delta_time) ==
    LET ks     == stiffness(s, m)
        kc     == damp_coefficient(s, m)
        gamma  == Div(One, Add(kc, Mul(delta_time, ks)))
        beta   == Div(Mul(delta_time, ks), Add(kc, Mul(delta_time, ks)))
        bias   == Mul(Div(beta, delta_time), displacement)
        lambda == Div(Add(relative_velocity, bias), Add(Div(One, m), gamma))
    IN  lambda

\* mutant: the bias adds the displacement instead of scaling by it
soft_constraint_added_bias(s, m, displacement, relative_velocity, delta_time) ==
    LET ks     == stiffness(s, m)
        kc     == damp_coefficient(s, m)
        gamma  == Div(One, Add(kc, Mul(delta_time, ks)))
        beta   == Div(Mul(delta_time, ks), Add(kc, Mul(delta_time, ks)))
        bias   == Add(Div(beta, delta_time), displacement)
        lambda == Div(Neg(Add(relative_velocity, bias)),
                      Add(Div(One, m), gamma))
    IN  lambda

soft_constraint(s, m, displacement, relative_velocity, delta_time) ==
    LET ks     == stiffness(s, m)
        kc     == damp_coefficient(s, m)
        gamma  == Div(One, Add(kc, Mul(delta_time, ks)))
        beta   == Div(Mul(delta_time, ks), Add(kc, Mul(delta_time, ks)))
        bias   == Mul(Div(beta, delta_time), displacement)
        lambda == Div(Neg(Add(relative_velocity, bias)),
                      Add(Div(One, m), gamma))
    IN  lambda

\* the denominators of the four divisions soft_constraint executes
soft_constraint_denominators(s, m, delta_time) ==
    LET ks    == stiffness(s, m)
        kc    == damp_coefficient(s, m)
        gamma == Div(One, Add(kc, Mul(delta_time, ks)))
    IN  { Add(kc, Mul(delta_time, ks)),   \* gamma and beta
          delta_time,                     \* bias
          m,                              \* 1.0 / mass
          Add(Div(One, m), gamma) }       \* lambda

\* inputs of the harness runs
Frequencies == { Zero, One, Two }
DampRatios  == { Zero, Q(1, 2), One, Two }
Masses      == { Zero, One, Two }
Timesteps   == { Q(1, 2), One, Two }
Positions   == { Int2Q(-1), Zero, One }
Velocities  == { Int2Q(-1), Zero, One }

NoCall == [mass |-> Zero, displacement |-> Zero, relative_velocity |-> Zero,
           delta_time |-> Zero, ks |-> Zero, kc |-> Zero,
           critical |-> Zero, denominators |-> {}, lambda |-> Zero]

\* tests::soft_constraint up to the first integrate call, with the literals
\* (frequency, damp_ratio, timestep, mass, position, velocity) as parameters
SpringInit ==
    /\ spring \in [frequency : Frequencies, damp_ratio : DampRatios]
    /\ mass \in Masses
    /\ timestep \in Timesteps
    /\ position \in Positions
    /\ velocity \in Velocities
    /\ initial = [position |-> position, velocity |-> velocity]
    /\ last = NoCall
    /\ history = <<position>>

\* the integrate closure of tests::soft_constraint, followed by plot_y.push
integrate ==
    /\ Len(history) <= MaxSteps
    /\ LET force == soft_constraint(spring, mass, position, velocity, timestep)
           v1    == Add(velocity, Div(Mul(force, timestep), mass))
           p1    == Add(position, Mul(v1, timestep))
       IN  /\ last' = [mass |-> mass, displacement |-> position,
                       relative_velocity |-> velocity, delta_time |-> timestep,
                       ks |-> stiffness(spring, mass),
                       kc |-> damp_coefficient(spring, mass),
                       critical |-> critical_damping_point(spring, mass),
                       denominators |->
                           soft_constraint_denominators(spring, mass, timestep),
                       lambda |-> force]
           /\ velocity' = v1
           /\ position' = p1
           /\ history' = Append(history, p1)
    /\ UNCHANGED <<spring, mass, timestep, initial>>

SpringNext == integrate

(***************************************************************************)
(* Gravity: src/controller/gravity.rs                                      *)
(***************************************************************************)
V3(x, y, z) == <<Int2Q(x), Int2Q(y), Int2Q(z)>>

\* glam Vec3 operators used by Gravity::project
dot(a, b) == Add(Add(Mul(a[1], b[1]), Mul(a[2], b[2])), Mul(a[3], b[3]))

scale(a, k) == <<Mul(a[1], k), Mul(a[2], k), Mul(a[3], k)>>

vadd(a, b) == <<Add(a[1], b[1]), Add(a[2], b[2]), Add(a[3], b[3])>>

length_squared(a) == dot(a, a)

length(a) == Sqrt(dot(a, a))

\* self * self.length().recip(): a zero vector becomes NaN in every component
normalize(a) == scale(a, Div(One, length(a)))

\* f32::signum: 1.0 for +0.0 and positive numbers, -1.0 for negative numbers
signum(a) == IF IsNaN(a) THEN NaN ELSE IF a[1] < 0 THEN Int2Q(-1) ELSE One

\* Vec3::any_orthonormal_pair (branchless basis of Duff et al.)
any_orthonormal_pair(n) ==
    LET sign == signum(n[3])
        a    == Div(Int2Q(-1), Add(n[3], sign))
        b    == Mul(Mul(n[1], n[2]), a)
    IN  << << Add(One, Mul(Mul(Mul(sign, n[1]), n[1]), a)),
              Mul(sign, b),
              Mul(Neg(sign), n[1]) >>,
           << b,
              Add(sign, Mul(Mul(n[2], n[2]), a)),
              Neg(n[2]) >> >>

\* rhs * self.dot(rhs) * rhs.dot(rhs).recip()
project_onto(a, rhs) == scale(scale(rhs, dot(a, rhs)), Div(One, dot(rhs, rhs)))

\* mutant: only the first basis vector of the plane is used
project_single_axis(g, other) ==
    LET up == normalize(g.up_vector)
    IN  IF Lt(Zero, length_squared(up))
        THEN project_onto(other, any_orthonormal_pair(up)[1])
        ELSE other

\* mutant: the guard is written up.length_squared() != 0.0, true for NaN
project_ne_zero(g, other) ==
    LET up == normalize(g.up_vector)
    IN  IF ~IsZero(length_squared(up))
        THEN LET pair == any_orthonormal_pair(up)
             IN  vadd(project_onto(other, pair[1]), project_onto(other, pair[2]))
        ELSE other

\* mutant: up_vector is used without normalizing it
project_unnormalized(g, other) ==
    LET up == g.up_vector
    IN  IF Lt(Zero, length_squared(up))
        THEN LET pair == any_orthonormal_pair(up)
             IN  vadd(project_onto(other, pair[1]), project_onto(other, pair[2]))
        ELSE other

project(g, other) ==
    LET up == normalize(g.up_vector)
    IN  IF Lt(Zero, length_squared(up))
        THEN LET pair == any_orthonormal_pair(up)
             IN  vadd(project_onto(other, pair[1]), project_onto(other, pair[2]))
        ELSE other

\* up vectors with a rational length, so that normalize is exact
UpVectors == { V3(0, 1, 0), V3(0, 0, 0), V3(0, 2, 0), V3(0, 0, -1),
               V3(3, 4, 0), V3(1, 2, 2), V3(0, -3, 4) }

Coords == { Int2Q(c) : c \in -MaxCoord..MaxCoord }

MaxProjections == 2

GravInit ==
    /\ gravity \in [acceleration : { Q(-9817, 1000) },
                    up_vector : UpVectors,
                    forward_vector : { V3(0, 0, -1) }]
    /\ vec \in (Coords \X Coords \X Coords) \cup {gravity.up_vector}
    /\ original = vec
    /\ projections = 0

\* vec = gravity.project(vec)
Project ==
    /\ projections < MaxProjections
    /\ vec' = project(gravity, vec)
    /\ projections' = projections + 1
    /\ UNCHANGED <<gravity, original>>

GravNext == Project

(***************************************************************************)
(* gravity_force: src/controller/gravity.rs                                *)
(***************************************************************************)
Controllers == { "player", "ship" }

\* Gravity values game logic may set (Gravity::default and a non-unit up)
Gravities ==
    { [acceleration |-> Q(-9817, 1000), up_vector |-> V3(0, 1, 0),
       forward_vector |-> V3(0, 0, -1)],
      [acceleration |-> Int2Q(-20), up_vector |-> V3(0, 0, 2),
       forward_vector |-> V3(0, 0, -1)] }

ControllerMasses == { One, Two }

Translations == { V3(0, 0, 0), V3(1, 0, 0) }

\* mutant: the force is added to the one left from the previous frame
gravity_force_accumulate(comps) ==
    [e \in DOMAIN comps |->
        [comps[e] EXCEPT !.linear =
            vadd(comps[e].linear,
                 scale(scale(comps[e].gravity.up_vector, comps[e].mass),
                       comps[e].gravity.acceleration))]]

\* mutant: the up vector is normalized in place before it is used
gravity_force_normalizing(comps) ==
    [e \in DOMAIN comps |->
        [comps[e] EXCEPT
            !.gravity.up_vector = normalize(comps[e].gravity.up_vector),
            !.linear = scale(scale(comps[e].gravity.up_vector, comps[e].mass),
                             comps[e].gravity.acceleration)]]

\* for (global, mut force, gravity, mass) in &mut query {
\*     force.linear = gravity.up_vector * mass.mass * gravity.acceleration; }
\* (the gizmo ray drawn per controller is no component of any entity)
gravity_force(comps) ==
    [e \in DOMAIN comps |->
        [comps[e] EXCEPT !.linear =
            scale(scale(comps[e].gravity.up_vector, comps[e].mass),
                  comps[e].gravity.acceleration)]]

\* controllers as spawned: GravityForce::default() is the zero vector
ForceInit ==
    /\ components \in [Controllers ->
                          [gravity : Gravities, mass : ControllerMasses,
                           translation : Translations,
                           linear : { V3(0, 0, 0) }]]
    /\ before = components
    /\ fphase = "game"
    /\ ftick = 1

\* game logic replaces the Gravity of a controller between two frames
SetGravity(e, g) ==
    /\ fphase = "game"
    /\ ftick > 1
    /\ components[e].gravity # g
    /\ components' = [components EXCEPT ![e].gravity = g]
    /\ UNCHANGED <<before, fphase, ftick>>

\* the mass read from the physics engine changes
SetMass(e, m) ==
    /\ fphase = "game"
    /\ ftick > 1
    /\ components[e].mass # m
    /\ components' = [components EXCEPT ![e].mass = m]
    /\ UNCHANGED <<before, fphase, ftick>>

\* the gravity_force system runs over every controller
GravityForceRuns ==
    /\ fphase = "game"
    /\ before' = components
    /\ components' = gravity_force(components)
    /\ fphase' = "forced"
    /\ UNCHANGED ftick

\* the physics engine moves the bodies and the next frame begins
NextForceFrame ==
    /\ fphase = "forced"
    /\ ftick < MaxForceTick
    /\ \E t \in [Controllers -> Translations] :
           components' = [e \in Controllers |->
                             [components[e] EXCEPT !.translation = t[e]]]
    /\ fphase' = "game"
    /\ ftick' = ftick + 1
    /\ UNCHANGED before

ForceNext ==
    \/ \E e \in Controllers, g \in Gravities : SetGravity(e, g)
    \/ \E e \in Controllers, m \in ControllerMasses : SetMass(e, m)
    \/ GravityForceRuns
    \/ NextForceFrame

(***************************************************************************)
(* Ground probe, Groundedness and float force (spec 4.3, 4.4)              *)
(***************************************************************************)
\* configuration of the probe: enter threshold, larger leave threshold, and
\* the half-width of the band around the enter threshold
grounded_threshold == One
airborne_threshold == Two
band_epsilon == Q(1, 2)

\* configuration of the float: target ride height, spring and body mass
ride_height == One
float_spring == [frequency |-> One, damp_ratio |-> Q(1, 4)]
float_mass == One
float_dt == One

Miss == [hit |-> FALSE, toi |-> Zero]

Hit(d) == [hit |-> TRUE, toi |-> d]

\* results of the shape cast: a miss, or a hit at a distance
Casts == { Miss, Hit(Q(1, 2)), Hit(One), Hit(Q(3, 2)), Hit(Int2Q(3)) }

\* mutant: one threshold decides both directions
determine_groundedness_single(g, c) ==
    IF c.hit /\ Le(c.toi, grounded_threshold) THEN "Grounded" ELSE "Airborne"

\* Airborne -> Grounded when distance <= grounded_threshold;
\* Grounded -> Airborne when distance > airborne_threshold or contact is lost
determine_groundedness(g, c) ==
    IF g = "Airborne"
    THEN IF c.hit /\ Le(c.toi, grounded_threshold) THEN "Grounded" ELSE "Airborne"
    ELSE IF ~c.hit \/ Lt(airborne_threshold, c.toi) THEN "Airborne" ELSE "Grounded"

\* mutant: the spring is applied whenever the cast hit something
float_force_ungated(g, c, v) ==
    IF c.hit
    THEN soft_constraint(float_spring, float_mass, Sub(c.toi, ride_height), v,
                         float_dt)
    ELSE Zero

\* soft_constraint along up_vector on (height - ride height, relative
\* velocity); zero when Airborne
float_force(g, c, v) ==
    IF g = "Grounded" /\ c.hit
    THEN soft_constraint(float_spring, float_mass, Sub(c.toi, ride_height), v,
                         float_dt)
    ELSE Zero

GroundInit ==
    /\ cast = Miss
    /\ groundedness \in { "Grounded", "Airborne" }
    /\ float_linear = Zero
    /\ rel_velocity \in { Int2Q(-1), Zero, One }
    /\ dists = <<>>
    /\ toggles = 0
    /\ gpc = "find_ground"
    /\ gtick = 1

\* find_ground: the cast of this frame replaces the one of the last frame
FindGround ==
    /\ gpc = "find_ground"
    /\ \E c \in Casts :
           /\ cast' = c
           /\ dists' = Append(dists, c)
    /\ gpc' = "determine_groundedness"
    /\ UNCHANGED <<groundedness, float_linear, rel_velocity, toggles, gtick>>

DetermineGroundedness ==
    /\ gpc = "determine_groundedness"
    /\ groundedness' = determine_groundedness(groundedness, cast)
    /\ toggles' = IF groundedness' # groundedness THEN toggles + 1 ELSE toggles
    /\ gpc' = "float_force"
    /\ UNCHANGED <<cast, float_linear, rel_velocity, dists, gtick>>

FloatForce ==
    /\ gpc = "float_force"
    /\ float_linear' = float_force(groundedness, cast, rel_velocity)
    /\ gpc' = "end"
    /\ UNCHANGED <<cast, groundedness, rel_velocity, dists, toggles, gtick>>

EndGroundFrame ==
    /\ gpc = "end"
    /\ gtick < MaxGroundTick
    /\ gtick' = gtick + 1
    /\ gpc' = "find_ground"
    /\ UNCHANGED <<cast, groundedness, float_linear, rel_velocity, dists,
                   toggles>>

GroundNext ==
    \/ FindGround
    \/ DetermineGroundedness
    \/ FloatForce
    \/ EndGroundFrame

(***************************************************************************)
(* Parts: src/controller/parts.rs                                          *)
(***************************************************************************)
Entities == { "e1", "e2", "e3" }

\* the Vec<Entity> values of the parts field
PartsLists == UNION { [1..n -> Entities] : n \in 0..MaxParts }

\* std::iter::once(value): an iterator that yields value exactly once
once(value) == << value >>

\* a.chain(b): the items of a, then the items of b
chain(a, b) == [a |-> a, b |-> b]

NoIter == chain(<<>>, <<>>)

\* mutant: the controller is left out when the list already holds it
Parts_parts_dedup(list, c) ==
    chain(list, IF \E i \in 1..Len(list) : list[i] = c THEN <<>> ELSE once(c))

\* self.parts.iter().copied().chain(std::iter::once(controller))
Parts_parts(list, c) == chain(list, once(c))

PartsInit ==
    /\ parts \in PartsLists
    /\ controller \in Entities
    /\ iter = NoIter
    /\ items = <<>>
    /\ ppc = "idle"

\* let it = parts.parts(controller)
CallParts ==
    /\ ppc = "idle"
    /\ iter' = Parts_parts(parts, controller)
    /\ ppc' = "iterating"
    /\ UNCHANGED <<parts, controller, items>>

\* Chain::next: the next item of a while it has one, then the next item of b
IterNext ==
    /\ ppc = "iterating"
    /\ IF iter.a # <<>>
       THEN /\ items' = Append(items, Head(iter.a))
            /\ iter' = [iter EXCEPT !.a = Tail(iter.a)]
            /\ ppc' = ppc
       ELSE IF iter.b # <<>>
            THEN /\ items' = Append(items, Head(iter.b))
                 /\ iter' = [iter EXCEPT !.b = Tail(iter.b)]
                 /\ ppc' = ppc
            ELSE /\ ppc' = "done"
                 /\ UNCHANGED <<iter, items>>
    /\ UNCHANGED <<parts, controller>>

PartsNext ==
    \/ CallParts
    \/ IterNext

(***************************************************************************)
(* Specifications                                                          *)
(***************************************************************************)
PipeIdle ==
    /\ plugin = WanderlustPlugin_default
    /\ started = FALSE
    /\ ctx = IntegrationParameters_default
    /\ setups = 0
    /\ body = NoBody
    /\ seenBody = [c \in BodyReaders |-> NoBody]
    /\ status = [n \in Nodes |-> "idle"]
    /\ tick = 1
    /\ ground = NoSnapshot
    /\ seen = [c \in GroundReaders |-> NoSnapshot]
    /\ accumulated = {}
    /\ applied = 0
    /\ appliedAtSync = 0
    /\ syncs = 0

SpringIdle ==
    /\ spring = [frequency |-> One, damp_ratio |-> Q(1, 4)]
    /\ mass = One
    /\ timestep = One
    /\ position = Zero
    /\ velocity = Zero
    /\ initial = [position |-> Zero, velocity |-> Zero]
    /\ last = NoCall
    /\ history = <<Zero>>

GravIdle ==
    /\ gravity = [acceleration |-> Q(-9817, 1000), up_vector |-> V3(0, 1, 0),
                  forward_vector |-> V3(0, 0, -1)]
    /\ vec = V3(0, 0, 0)
    /\ original = V3(0, 0, 0)
    /\ projections = 0

ForceIdle ==
    /\ components = [e \in Controllers |->
                        [gravity |-> [acceleration |-> Q(-9817, 1000),
                                      up_vector |-> V3(0, 1, 0),
                                      forward_vector |-> V3(0, 0, -1)],
                         mass |-> One, translation |-> V3(0, 0, 0),
                         linear |-> V3(0, 0, 0)]]
    /\ before = components
    /\ fphase = "game"
    /\ ftick = 1

GroundIdle ==
    /\ cast = Miss
    /\ groundedness = "Airborne"
    /\ float_linear = Zero
    /\ rel_velocity = Zero
    /\ dists = <<>>
    /\ toggles = 0
    /\ gpc = "find_ground"
    /\ gtick = 1

PartsIdle ==
    /\ parts = <<>>
    /\ controller = "e1"
    /\ iter = NoIter
    /\ items = <<>>
    /\ ppc = "idle"

\* the frame pipeline
Init == PipeInit /\ SpringIdle /\ GravIdle /\ ForceIdle /\ GroundIdle
        /\ PartsIdle
Next == PipeNext /\ UNCHANGED <<springVars, gravVars, forceVars, groundVars,
                             partsVars>>
Spec == Init /\ [][Next]_vars
\* the executor never idles while a system is ready to run
FairSpec == Spec /\ WF_vars(Next)

\* the spring harness
SpringSpecInit == SpringInit /\ PipeIdle /\ GravIdle /\ ForceIdle /\ GroundIdle
        /\ PartsIdle
SpringSpecNext ==
    SpringNext /\ UNCHANGED <<pipeVars, gravVars, forceVars, groundVars,
                             partsVars>>
SpringSpec == SpringSpecInit /\ [][SpringSpecNext]_vars

\* repeated projection
GravSpecInit == GravInit /\ PipeIdle /\ SpringIdle /\ ForceIdle /\ GroundIdle
        /\ PartsIdle
GravSpecNext ==
    GravNext /\ UNCHANGED <<pipeVars, springVars, forceVars, groundVars,
                             partsVars>>
GravSpec == GravSpecInit /\ [][GravSpecNext]_vars

\* the gravity_force system over several frames
ForceSpecInit == ForceInit /\ PipeIdle /\ SpringIdle /\ GravIdle /\ GroundIdle
        /\ PartsIdle
ForceSpecNext ==
    ForceNext /\ UNCHANGED <<pipeVars, springVars, gravVars, groundVars,
                            partsVars>>
ForceSpec == ForceSpecInit /\ [][ForceSpecNext]_vars

\* ground probe, groundedness and float force over several frames
GroundSpecInit ==
    GroundInit /\ PipeIdle /\ SpringIdle /\ GravIdle /\ ForceIdle /\ PartsIdle
GroundSpecNext ==
    GroundNext /\ UNCHANGED <<pipeVars, springVars, gravVars, forceVars,
                              partsVars>>
GroundSpec == GroundSpecInit /\ [][GroundSpecNext]_vars

\* one call of Parts::parts and the iteration over its result
PartsSpecInit ==
    PartsInit /\ PipeIdle /\ SpringIdle /\ GravIdle /\ ForceIdle /\ GroundIdle
PartsSpecNext ==
    PartsNext /\ UNCHANGED <<pipeVars, springVars, gravVars, forceVars,
                             groundVars>>
PartsSpec == PartsSpecInit /\ [][PartsSpecNext]_vars

(***************************************************************************)
(* Properties of the frame pipeline (Spec, FairSpec)                       *)
(***************************************************************************)
FrameSnapshot == [cast |-> tick, groundedness |-> tick]

\* C1: once movement_force, float_force, upright_force or jump_force has
\* started in a frame, find_ground and determine_groundedness of that frame
\* have finished, and the ground snapshot the contributor read is the one
\* computed in that same frame.
C1_GroundBeforeContributors ==
    \A c \in GroundReaders :
        status[c] # "idle" =>
            /\ status["find_ground"] = "done"
            /\ status["determine_groundedness"] = "done"
            /\ seen[c] = FrameSnapshot

C1_Witness ==
    /\ plugin.default_systems
    /\ tick = 2
    /\ status["jump_force"] = "done"
    /\ \A c \in GroundReaders : seen[c] = FrameSnapshot

\* C2: accumulate_forces starts only after all five contributors of the frame
\* have finished, and apply_forces starts only after accumulate_forces of the
\* frame has finished.
C2_AccumulateAfterContributors ==
    /\ status["accumulate_forces"] # "idle" =>
           /\ \A c \in Contributors : status[c] = "done"
           /\ accumulated = Contributors
    /\ status["apply_forces"] # "idle" => status["accumulate_forces"] = "done"

C2_Witness ==
    /\ plugin.default_systems
    /\ status["apply_forces"] = "done"
    /\ accumulated = Contributors

\* C3: with the default systems installed, apply_forces never runs twice
\* before a backend sync, and every backend sync finds exactly one apply_forces
\* execution since the sync before it.
C3_AppliedExactlyOnce ==
    plugin.default_systems =>
        /\ applied <= 1
        /\ syncs >= 1 => appliedAtSync = 1

C3_Witness ==
    /\ plugin.default_systems
    /\ syncs >= 2
    /\ appliedAtSync = 1
    /\ applied = 0

FrameStarted == \E s \in Registered : status[s] # "idle"

SyncStarted == status[SyncBackend] # "idle"

\* C4: the backend sync of a frame starts only when all twelve pipeline
\* systems of that frame have finished, and a frame whose pipeline has started
\* always reaches the start of its backend sync.
C4_TickCompletesBeforeSync ==
    /\ [](SyncStarted => \A s \in Registered : status[s] = "done")
    /\ \A t \in 1..MaxTick :
           (tick = t /\ FrameStarted) ~> (tick = t /\ SyncStarted)

C4_Witness ==
    /\ plugin.default_systems
    /\ tick = 2
    /\ status[SyncBackend] = "running"
    /\ \A s \in Systems : status[s] = "done"

\* C17: with default_systems = false no pipeline system ever runs and no
\* force is accumulated or applied; with tweaks = false setup_physics_context
\* never runs and the integration parameters stay as they were; with tweaks =
\* true it has run exactly once when Startup is over, leaving erp = 0.99 and
\* max_velocity_iterations = 16, and no step after Startup touches them;
\* WanderlustPlugin::default() sets both flags.
C17_IndependentGates ==
    /\ [](/\ ~plugin.default_systems =>
                 /\ \A s \in Systems : status[s] = "idle"
                 /\ accumulated = {}
                 /\ applied = 0
          /\ ~plugin.tweaks =>
                 (setups = 0 /\ ctx = IntegrationParameters_default)
          /\ (plugin.tweaks /\ started) =>
                 /\ setups = 1
                 /\ ctx.erp = Q(99, 100)
                 /\ ctx.max_velocity_iterations = 16
          /\ WanderlustPlugin_default.tweaks
          /\ WanderlustPlugin_default.default_systems)
    /\ [][started => (ctx' = ctx /\ setups' = setups)]_vars

C17_Witness ==
    /\ plugin = [tweaks |-> TRUE, default_systems |-> FALSE]
    /\ started
    /\ tick = 2
    /\ syncs = 2
    /\ setups = 1
    /\ ctx = [erp |-> Q(99, 100), max_velocity_iterations |-> 16]
    /\ \A s \in Systems : status[s] = "idle"

FrameBody == [mass |-> tick, velocity |-> tick]

\* C18: once find_ground or a contributor has started in a frame,
\* get_mass_from_rapier and get_velocity_from_rapier of that frame have
\* finished, and the mass and velocity it read are those of that same frame.
C18_BodyReadFirst ==
    \A c \in BodyReaders :
        status[c] # "idle" =>
            /\ status["get_mass_from_rapier"] = "done"
            /\ status["get_velocity_from_rapier"] = "done"
            /\ seenBody[c] = FrameBody

C18_Witness ==
    /\ plugin.default_systems
    /\ tick = 2
    /\ status["find_ground"] = "running"
    /\ seenBody["find_ground"] = FrameBody
    /\ seenBody["jump_force"] = [mass |-> 1, velocity |-> 1]

Running == { s \in Systems : status[s] = "running" }

\* C19: at most one of the twelve pipeline systems is running at any time,
\* and a system has started only if its predecessor in the tuple has finished.
C19_StrictlySequential ==
    /\ Cardinality(Running) <= 1
    /\ \A i \in 1..(Len(Chain) - 1) :
           status[Chain[i + 1]] # "idle" => status[Chain[i]] = "done"

C19_Witness ==
    /\ plugin.default_systems
    /\ tick = 2
    /\ Running = { "movement_force" }
    /\ status["gravity_force"] = "done"
    /\ status["float_force"] = "idle"

(***************************************************************************)
(* Properties of the spring (SpringSpec)                                   *)
(***************************************************************************)
Called == Len(history) > 1

\* C5: soft_constraint on a spring with frequency = 0 returns exactly zero
\* and divides by no zero denominator.
C5_ZeroFrequencyZeroForce ==
    (Called /\ spring.frequency = Zero) =>
        /\ last.lambda = Zero
        /\ \A d \in last.denominators : ~IsZero(d)

ValidCall ==
    /\ Lt(Zero, last.mass)
    /\ Lt(Zero, spring.frequency)
    /\ Le(Zero, spring.damp_ratio)
    /\ Lt(Zero, last.delta_time)

\* C6: for valid inputs the result of soft_constraint is
\* lambda = -(v + bias) / (1/mass + gamma) with gamma = 1/(c + h k),
\* beta = h k/(c + h k), bias = (beta/h) x, k = stiffness, c = damp_coefficient.
C6_LambdaFormula ==
    (Called /\ ValidCall) =>
        LET h     == last.delta_time
            chk   == Add(last.kc, Mul(h, last.ks))
            gamma == Div(One, chk)
            beta  == Div(Mul(h, last.ks), chk)
            bias  == Mul(Div(beta, h), last.displacement)
        IN  /\ IsFinite(last.lambda)
            /\ Mul(gamma, chk) = One
            /\ Mul(last.lambda, Add(Div(One, last.mass), gamma))
                   = Neg(Add(last.relative_velocity, bias))

C6_Witness ==
    /\ Called /\ ValidCall
    /\ last.displacement # Zero
    /\ last.relative_velocity # Zero
    /\ last.lambda # Zero

\* C7: for mass >= 0, stiffness = mass * frequency^2, critical_damping_point
\* = 2 sqrt(mass * stiffness) (= 2 * mass * frequency when frequency >= 0) and
\* damp_coefficient = damp_ratio * critical_damping_point.
C7_Coefficients ==
    (Called /\ Le(Zero, last.mass)) =>
        LET f == spring.frequency
            m == last.mass
        IN  /\ last.ks = Mul(m, Mul(f, f))
            /\ Le(Zero, last.critical)
            /\ Mul(last.critical, last.critical)
                   = Mul(Int2Q(4), Mul(m, last.ks))
            /\ Le(Zero, f) => last.critical = Mul(Two, Mul(m, f))
            /\ last.kc = Mul(spring.damp_ratio, last.critical)

C7_Witness ==
    /\ Called
    /\ last.mass = Two
    /\ spring.frequency = Two
    /\ spring.damp_ratio = Q(1, 2)
    /\ last.ks = Int2Q(8)
    /\ last.kc = Int2Q(4)

\* C8: for mass > 0, frequency > 0, damp_ratio >= 1 and initial velocity 0,
\* every harness step moves the displacement toward zero (its magnitude never
\* grows) and never changes its sign.
C8_MonotoneNoSignChange ==
    ( /\ Lt(Zero, mass)
      /\ Lt(Zero, spring.frequency)
      /\ Le(One, spring.damp_ratio)
      /\ initial.velocity = Zero ) =>
        \A i \in 1..(Len(history) - 1) :
            LET a == history[i]
                b == history[i + 1]
            IN  /\ Le(AbsQ(b), AbsQ(a))
                /\ Lt(Zero, a) => Le(Zero, b)
                /\ Lt(a, Zero) => Le(b, Zero)

\* the plotted displacement turns at index i: the release point of a run that
\* starts at rest, or a strict local extremum
IsPeak(i) ==
    \/ i = 1 /\ initial.velocity = Zero /\ initial.position # Zero
    \/ /\ 1 < i /\ i < Len(history)
       /\ \/ Lt(history[i - 1], history[i]) /\ Lt(history[i + 1], history[i])
          \/ Lt(history[i], history[i - 1]) /\ Lt(history[i], history[i + 1])

\* C9: for mass > 0, frequency > 0 and 0 <= damp_ratio < 1 the displacement
\* oscillates with strictly decreasing amplitude: of any two peaks of the
\* plotted displacement the later one has the smaller magnitude.
C9_DecreasingAmplitude ==
    ( /\ Lt(Zero, mass)
      /\ Lt(Zero, spring.frequency)
      /\ Le(Zero, spring.damp_ratio)
      /\ Lt(spring.damp_ratio, One) ) =>
        \A i, j \in 1..Len(history) :
            (i < j /\ IsPeak(i) /\ IsPeak(j)) =>
                Lt(AbsQ(history[j]), AbsQ(history[i]))

(***************************************************************************)
(* Properties of the gravity model (GravSpec)                              *)
(***************************************************************************)
\* C10: project is idempotent: a vector that is the result of project is
\* left unchanged by another project.
C10_ProjectIdempotent ==
    projections >= 1 => project(gravity, vec) = vec

C10_Witness ==
    /\ projections = 1
    /\ Lt(Zero, length_squared(gravity.up_vector))
    /\ vec # original
    /\ vec # V3(0, 0, 0)
    /\ gravity.up_vector = V3(1, 2, 2)

NonZeroUp == Lt(Zero, length_squared(gravity.up_vector))

\* the component of v along up_vector, (v . u) u with u = up / |up|, written
\* without a square root as up (v . up) / (up . up)
AlongUp(v) ==
    scale(gravity.up_vector,
          Div(dot(v, gravity.up_vector),
              dot(gravity.up_vector, gravity.up_vector)))

\* C11: for an up_vector of non-zero length (unit or not) the projected vector
\* is v - (v . u) u, it has no component along up_vector, and the projection
\* of up_vector itself is the zero vector.
C11_ProjectRemovesUp ==
    (projections >= 1 /\ NonZeroUp) =>
        /\ vadd(vec, AlongUp(original)) = original
        /\ dot(vec, gravity.up_vector) = Zero
        /\ original = gravity.up_vector => vec = V3(0, 0, 0)

C11_Witness ==
    /\ projections = 1
    /\ gravity.up_vector = V3(3, 4, 0)
    /\ original = gravity.up_vector
    /\ vec = V3(0, 0, 0)

\* C12: with a zero-length up_vector project returns its argument unchanged
\* (no NaN or infinity appears in the result).
C12_ZeroUpIdentity ==
    (projections >= 1 /\ gravity.up_vector = V3(0, 0, 0)) =>
        /\ vec = original
        /\ \A i \in 1..3 : IsFinite(vec[i])

C12_Witness ==
    /\ projections = 1
    /\ gravity.up_vector = V3(0, 0, 0)
    /\ original = V3(1, -1, 1)
    /\ vec = original

(***************************************************************************)
(* Properties of gravity_force (ForceSpec)                                 *)
(***************************************************************************)
\* C13: after gravity_force has run in a frame, GravityForce.linear of every
\* controller is up_vector * mass * acceleration of that frame's Gravity and
\* ControllerMass, whatever it was before.
C13_GravityForceOverwrites ==
    fphase = "forced" =>
        \A e \in Controllers : \A i \in 1..3 :
            components[e].linear[i] =
                Mul(components[e].gravity.up_vector[i],
                    Mul(components[e].mass, components[e].gravity.acceleration))

C13_Witness ==
    /\ fphase = "forced"
    /\ ftick = 2
    /\ before["player"].linear = <<Zero, Q(-9817, 1000), Zero>>
    /\ components["player"].mass = One
    /\ components["player"].linear = V3(0, 0, -40)

\* C20: a run of gravity_force leaves Gravity, ControllerMass and the
\* translation of every controller as they were; only GravityForce.linear
\* may differ.
C20_OnlyLinearChanges ==
    [][(fphase = "game" /\ fphase' = "forced") =>
          \A e \in Controllers :
              /\ components'[e].gravity = components[e].gravity
              /\ components'[e].mass = components[e].mass
              /\ components'[e].translation = components[e].translation]_vars

C20_Witness ==
    /\ fphase = "forced"
    /\ components["ship"].gravity.up_vector = V3(0, 0, 2)
    /\ components["ship"].linear # before["ship"].linear
    /\ components["ship"].gravity = before["ship"].gravity
    /\ components["ship"].mass = before["ship"].mass
    /\ components["ship"].translation = before["ship"].translation

ValidHarness ==
    /\ Lt(Zero, mass)
    /\ Lt(Zero, spring.frequency)
    /\ Le(Zero, spring.damp_ratio)
    /\ Lt(Zero, timestep)

AtRest == initial.position = Zero /\ initial.velocity = Zero

\* C21: for valid inputs soft_constraint at displacement 0 and relative
\* velocity 0 returns 0, and a harness run that starts at rest keeps
\* displacement 0 and velocity 0 after every step.
C21_RestIsFixedPoint ==
    /\ ( /\ Called /\ ValidCall
         /\ last.displacement = Zero
         /\ last.relative_velocity = Zero ) => last.lambda = Zero
    /\ (ValidHarness /\ AtRest) =>
           /\ \A i \in 1..Len(history) : history[i] = Zero
           /\ position = Zero
           /\ velocity = Zero

C21_Witness ==
    /\ ValidHarness /\ AtRest
    /\ spring.damp_ratio = One
    /\ Len(history) = MaxSteps + 1
    /\ last.lambda = Zero
    /\ position = Zero

\* C23: for valid inputs every denominator of soft_constraint (kc + dt*ks,
\* dt, mass, 1/mass + gamma) is positive and finite and the result is finite;
\* with zero relative velocity and non-zero displacement the result is not
\* zero and has the sign opposite to the displacement.
C23_FiniteAndRestoring ==
    (Called /\ ValidCall) =>
        /\ \A d \in last.denominators : Lt(Zero, d) /\ IsFinite(d)
        /\ IsFinite(last.lambda)
        /\ last.relative_velocity = Zero =>
               /\ Lt(Zero, last.displacement) => Lt(last.lambda, Zero)
               /\ Lt(last.displacement, Zero) => Lt(Zero, last.lambda)

C23_Witness ==
    /\ Called /\ ValidCall
    /\ spring.damp_ratio = Zero
    /\ last.relative_velocity = Zero
    /\ Lt(last.displacement, Zero)
    /\ Lt(Zero, last.lambda)
    /\ IsFinite(last.lambda)

\* C16: every Spring that reaches soft_constraint has frequency > 0 and
\* damp_ratio >= 0 (refuted: Spring is a plain struct with public fields, built
\* by a literal, and soft_constraint is called on whatever it holds).
C16_ValidatedAtConstruction ==
    Called => (Lt(Zero, spring.frequency) /\ Le(Zero, spring.damp_ratio))

(***************************************************************************)
(* Properties of the ground model (GroundSpec)                             *)
(***************************************************************************)
\* every cast so far hit within [grounded_threshold - eps,
\* grounded_threshold + eps], which lies below airborne_threshold
InBand ==
    \A i \in 1..Len(dists) :
        /\ dists[i].hit
        /\ Le(Sub(grounded_threshold, band_epsilon), dists[i].toi)
        /\ Le(dists[i].toi, Add(grounded_threshold, band_epsilon))
        /\ Lt(dists[i].toi, airborne_threshold)

\* C14: Airborne becomes Grounded only on a hit at distance <=
\* grounded_threshold, Grounded becomes Airborne only on a miss or a distance
\* > airborne_threshold, and while every distance stays in the band around
\* grounded_threshold the state changes at most once.
C14_Hysteresis ==
    /\ [](InBand => toggles <= 1)
    /\ [][ /\ (groundedness = "Airborne" /\ groundedness' = "Grounded") =>
                  (cast.hit /\ Le(cast.toi, grounded_threshold))
           /\ (groundedness = "Grounded" /\ groundedness' = "Airborne") =>
                  (~cast.hit \/ Lt(airborne_threshold, cast.toi)) ]_vars

C14_Witness ==
    /\ gpc = "end"
    /\ dists = << Hit(Q(3, 2)), Hit(Q(1, 2)), Hit(Q(3, 2)) >>
    /\ InBand
    /\ toggles = 1
    /\ groundedness = "Grounded"

\* C15: in a frame whose Groundedness is Airborne (a missed cast included)
\* the float force computed for the frame is exactly zero.
C15_AirborneNoFloat ==
    (gpc = "end" /\ groundedness = "Airborne") => float_linear = Zero

C15_Witness ==
    /\ gpc = "end"
    /\ gtick = 2
    /\ groundedness = "Airborne"
    /\ cast = Hit(Q(3, 2))
    /\ dists[1] = Hit(Int2Q(3))
    /\ float_linear = Zero

(***************************************************************************)
(* Properties of Parts::parts (PartsSpec)                                  *)
(***************************************************************************)
Occurrences(seq, e) == Cardinality({ i \in 1..Len(seq) : seq[i] = e })

\* C22: the iterator yields the entities of the parts list in list order and
\* then the controller: when it is exhausted it has yielded len(parts) + 1
\* items, the last one is the controller (also for an empty list), and the
\* controller occurs once more than it does in the list.
C22_PartsThenController ==
    /\ \A i \in 1..Len(items) :
           items[i] = IF i <= Len(parts) THEN parts[i] ELSE controller
    /\ ppc = "done" =>
           /\ Len(items) = Len(parts) + 1
           /\ items = parts \o << controller >>
           /\ items[Len(items)] = controller
           /\ Occurrences(items, controller) = Occurrences(parts, controller) + 1

C22_Witness ==
    /\ ppc = "done"
    /\ parts = << "e2", "e1" >>
    /\ controller = "e1"
    /\ items = << "e2", "e1", "e1" >>

====
